---- MODULE Spec2Model ----
(***************************************************************************)
(* A model of create_video_from_images (src/image_to_video.py): the        *)
(* slideshow generator that lists a folder, keeps the image files, sorts   *)
(* them, builds one timed clip per image that decodes, composes the clips  *)
(* over a background, reconciles an optional audio track and hands the     *)
(* result to the encoder.                                                  *)
(*                                                                         *)
(* moviepy is an external library: each of its calls is modelled by its    *)
(* documented effect on the duration, start and size of a clip.  Seconds   *)
(* and pixels are integers; the float expressions of the code are kept as  *)
(* exact fractions and truncated where the code calls int().               *)
(***************************************************************************)
EXTENDS Integers, Sequences, FiniteSets

\* ------------------------------------------------------------------ bounds
MaxFiles == 2
MaxDim == 3
MaxDuration == 2
MaxAudio == 2

\* ------------------------------------------------------------ the inputs
\* File names: a stem and an extension; stems are single digits, so the
\* order of str.sort() is the order of the stems.
Exts == <<"txt", "JPG", "png">>

NamePool == {[stem |-> n, ext |-> Exts[(n % 3) + 1]] : n \in 1..(MaxFiles + 1)}

ImageSuffixes == {"png", "jpg", "jpeg", "bmp", "gif"}

Lower(e) == IF e = "JPG" THEN "jpg" ELSE e

IsImageFile(f) == Lower(f.ext) \in ImageSuffixes

Templates == {"slide_in", "fade", "zoom", "rotate", "custom"}

Durations == 0..MaxDuration

Dims == 1..MaxDim

AllSizes == Dims \X Dims

NoSize == <<0, 0>>

\* What the folder holds for an entry: whether ImageClip() can decode it and
\* the natural size it then has.
Contents(sizes) ==
    {[decodes |-> FALSE, size |-> NoSize]} \cup {[decodes |-> TRUE, size |-> s] : s \in sizes}

IsInjective(s) == \A a, b \in DOMAIN s : a # b => s[a].name # s[b].name

\* A folder as os.listdir sees it: distinct names in arbitrary order.
Folders(maxLen, sizes) ==
    {s \in UNION {[1..k -> [name : NamePool, content : Contents(sizes)]] : k \in 0..maxLen} :
        /\ IsInjective(s)
        /\ \A a \in DOMAIN s : ~IsImageFile(s[a].name) => ~s[a].content.decodes}

NoAudioFile == "None"

\* The audio file on disk: absent, undecodable, or decodable with a duration
\* and an effect (loop, subclip) that may raise.
AudioSources ==
    {[exists |-> FALSE, decodes |-> FALSE, adjusts |-> FALSE, duration |-> 0],
     [exists |-> TRUE, decodes |-> FALSE, adjusts |-> FALSE, duration |-> 0]}
    \cup [exists : {TRUE}, decodes : {TRUE}, adjusts : BOOLEAN, duration : 1..MaxAudio]

VARIABLES folder, audio_source, duration, template, resolution, audio_file,
          image_files, total_duration, background, clips, i, video, written,
          log, pc

vars == <<folder, audio_source, duration, template, resolution, audio_file,
          image_files, total_duration, background, clips, i, video, written,
          log, pc>>

args == <<folder, audio_source, duration, template, resolution, audio_file>>

\* ---------------------------------------------------------------- helpers
RECURSIVE Insert(_, _)
Insert(f, s) ==
    IF s = <<>> THEN <<f>>
    ELSE IF f.stem <= Head(s).stem THEN <<f>> \o s
    ELSE <<Head(s)>> \o Insert(f, Tail(s))

RECURSIVE Sorted(_)
Sorted(s) == IF s = <<>> THEN <<>> ELSE Insert(Head(s), Sorted(Tail(s)))

RECURSIVE ImageNames(_)
ImageNames(s) ==
    IF s = <<>> THEN <<>>
    ELSE IF IsImageFile(Head(s).name) THEN <<Head(s).name>> \o ImageNames(Tail(s))
    ELSE ImageNames(Tail(s))

ContentOf(f) == (CHOOSE e \in {folder[k] : k \in DOMAIN folder} : e.name = f).content

Max2(a, b) == IF a >= b THEN a ELSE b

\* int() of the non-negative fraction n/d.
Trunc(n, d) == n \div d

NoClip == [size |-> NoSize, duration |-> 0, start |-> 0]

NoAudio == [duration |-> 0, effect |-> "none"]

NoVideo == [background |-> NoClip, clips |-> <<>>, size |-> NoSize, duration |-> 0,
            audio |-> NoAudio]

\* ------------------------------------------------------- moviepy's clips
\* ColorClip(resolution, color, duration)
ColorClip(size, d) == [size |-> size, duration |-> d, start |-> 0]

\* ImageClip(path) of a decodable file: a still of the image's natural size,
\* no duration yet, no effect applied.
ImageClip(f) ==
    [file |-> f.stem, natural |-> ContentOf(f).size, size |-> ContentOf(f).size,
     fx |-> <<>>, duration |-> 0, start |-> 0]

\* A slip: max() where the code has min().
RatioMax(size, res) ==
    IF res[1] * size[2] >= res[2] * size[1] THEN <<res[1], size[1]>> ELSE <<res[2], size[2]>>

\* ratio = min(resolution[0] / img_w, resolution[1] / img_h), as a fraction
\* <<numerator, denominator>>: W/w <= H/h iff W*h <= H*w.
Ratio(size, res) ==
    IF res[1] * size[2] <= res[2] * size[1] THEN <<res[1], size[1]>> ELSE <<res[2], size[2]>>

\* max_size = (int(img_w * ratio), int(img_h * ratio))
MaxSize(size, res) ==
    LET r == Ratio(size, res)
    IN  <<Trunc(size[1] * r[1], r[2]), Trunc(size[2] * r[1], r[2])>>

\* display_size = (int(max_size[0] * 1.2), int(max_size[1] * 1.2))
DisplaySize(m) == <<Trunc(m[1] * 12, 10), Trunc(m[2] * 12, 10)>>

\* zoom_factor(t) = 0.8 + 0.4 * (t / duration), as the fraction
\* (8 * duration + 4 * t) / (10 * duration); undefined when duration = 0.
ZoomFactor(t) == <<8 * duration + 4 * t, 10 * duration>>

\* clip.resize(lambda t: zoom_factor(t)): every frame gets the size of the
\* clip it is applied to times the factor at t; the clip's size attribute is
\* the size of frame 0.
ResizeByZoom(c) ==
    LET z == ZoomFactor(0)
    IN  [c EXCEPT !.fx = Append(@, [kind |-> "zoom", size |-> c.size]),
                  !.size = <<Trunc(c.size[1] * z[1], z[2]), Trunc(c.size[2] * z[1], z[2])>>]

\* clip.resize(newsize) with a fixed size: every frame gets that size.
ResizeTo(c, newsize) ==
    [c EXCEPT !.fx = Append(@, [kind |-> "fixed", size |-> newsize]), !.size = newsize]

\* A slip: the index taken for the start time.
ClipStartIndex(idx) == idx

\* The index enumerate() gives the file being processed, times duration.
ClipStart(idx) == idx * duration

\* img_clip.set_duration(duration).set_start(i * duration)
Schedule(c, idx) == [c EXCEPT !.duration = duration, !.start = ClipStart(idx)]

\* The size of the frame a clip shows at local time t: the last resize
\* applied decides it.
FrameSizeAt(c, t) ==
    IF c.fx = <<>> THEN c.natural
    ELSE LET last == c.fx[Len(c.fx)]
         IN  IF last.kind = "fixed" THEN last.size
             ELSE LET z == ZoomFactor(t)
                  IN  <<Trunc(last.size[1] * z[1], z[2]), Trunc(last.size[2] * z[1], z[2])>>

RECURSIVE MaxEnd(_)
MaxEnd(cs) ==
    IF cs = <<>> THEN 0 ELSE Max2(Head(cs).start + Head(cs).duration, MaxEnd(Tail(cs)))

\* CompositeVideoClip([background] + clips, size): the layers as given, the
\* duration the latest end among them.
CompositeVideoClip(bg, cs, size) ==
    [background |-> bg, clips |-> cs, size |-> size,
     duration |-> Max2(bg.start + bg.duration, MaxEnd(cs)), audio |-> NoAudio]

\* AudioFileClip(audio_file) of a decodable file.
AudioFileClip == [duration |-> audio_source.duration, effect |-> "none"]

\* audio.fx(vfx.loop, duration=d): the track repeats; its duration is set to
\* d when d is given and not zero.
Loop(a, d) == [duration |-> IF d # 0 THEN d ELSE a.duration, effect |-> "loop"]

\* A slip: a subclip that keeps the whole track.
SubclipWhole(a, t_start, t_end) == [duration |-> a.duration - t_start, effect |-> "subclip"]

\* audio.subclip(t_start, t_end): duration t_end - t_start.
Subclip(a, t_start, t_end) == [duration |-> t_end - t_start, effect |-> "subclip"]

\* Lines 60-63: loop a shorter track, cut a longer one.
Reconcile(a, d) == IF a.duration < d THEN Loop(a, d) ELSE Subclip(a, 0, d)

\* ------------------------------------------------------------------ Init
TimelineSizes == {<<1, MaxDim>>, <<MaxDim, 1>>}

TimelineCanvases == {<<MaxDim, MaxDim>>, <<1, MaxDim>>}

InitLocals ==
    /\ image_files = <<>>
    /\ total_duration = 0
    /\ background = NoClip
    /\ clips = <<>>
    /\ i = 0
    /\ video = NoVideo
    /\ written = <<>>
    /\ log = <<>>
    /\ pc = "scan"

InitArgs ==
    /\ duration \in Durations
    /\ template \in Templates
    /\ audio_file \in {NoAudioFile, "track.mp3"}
    /\ audio_source \in AudioSources
    /\ audio_file = NoAudioFile => ~audio_source.exists

\* Folders of up to MaxFiles entries, portrait and landscape images, a square
\* and a portrait canvas.
Init ==
    /\ folder \in Folders(MaxFiles, TimelineSizes)
    /\ resolution \in TimelineCanvases
    /\ InitArgs
    /\ InitLocals

\* Folders of at most one entry, every natural size and every canvas.
InitLayout ==
    /\ folder \in Folders(1, AllSizes)
    /\ resolution \in AllSizes
    /\ InitArgs
    /\ InitLocals

\* --------------------------------------------------------------- actions
Files == Sorted(ImageNames(folder))

\* Lines 16-21: no image file in the folder: report and return.
ScanEmpty ==
    /\ pc = "scan"
    /\ Files = <<>>
    /\ image_files' = Files
    /\ log' = Append(log, <<"no_images", 0>>)
    /\ pc' = "done"
    /\ UNCHANGED <<args, total_duration, background, clips, i, video, written>>

\* Lines 16-25: the sorted image files, the total duration, the background.
ScanFound ==
    /\ pc = "scan"
    /\ Files # <<>>
    /\ image_files' = Files
    /\ total_duration' = Len(Files) * duration
    /\ background' = ColorClip(resolution, Len(Files) * duration)
    /\ clips' = <<>>
    /\ i' = 0
    /\ pc' = "loop"
    /\ UNCHANGED <<args, video, written, log>>

\* A slip: break where the code has continue.
LoadFailBreak ==
    /\ pc = "loop"
    /\ i < Len(image_files)
    /\ ~ContentOf(image_files[i + 1]).decodes
    /\ log' = Append(log, <<"load_error", image_files[i + 1].stem>>)
    /\ i' = Len(image_files)
    /\ UNCHANGED <<args, image_files, total_duration, background, clips, video, written, pc>>

\* Lines 29-33: ImageClip raises: log and continue with the next file.
LoadFail ==
    /\ pc = "loop"
    /\ i < Len(image_files)
    /\ ~ContentOf(image_files[i + 1]).decodes
    /\ log' = Append(log, <<"load_error", image_files[i + 1].stem>>)
    /\ i' = i + 1
    /\ UNCHANGED <<args, image_files, total_duration, background, clips, video, written, pc>>

\* Lines 36-50: the clip of a decoded image, resized for the template.
Resized(c) ==
    LET max_size == MaxSize(c.size, resolution)
    IN  IF template = "zoom"
        THEN ResizeTo(ResizeByZoom(c), DisplaySize(max_size))
        ELSE ResizeTo(c, max_size)

\* Lines 30-53: one iteration of the loop for an image that decodes.
BuildClip ==
    /\ pc = "loop"
    /\ i < Len(image_files)
    /\ ContentOf(image_files[i + 1]).decodes
    /\ ~(template = "zoom" /\ duration = 0)
    /\ clips' = Append(clips, Schedule(Resized(ImageClip(image_files[i + 1])), i))
    /\ i' = i + 1
    /\ UNCHANGED <<args, image_files, total_duration, background, video, written, log, pc>>

\* Lines 43-44 with duration = 0: resize() samples frame 0 of the zoomed clip,
\* t / duration divides by zero, and nothing catches the ZeroDivisionError.
ZoomDivByZero ==
    /\ pc = "loop"
    /\ i < Len(image_files)
    /\ ContentOf(image_files[i + 1]).decodes
    /\ template = "zoom" /\ duration = 0
    /\ pc' = "raised"
    /\ UNCHANGED <<args, image_files, total_duration, background, clips, i, video, written, log>>

\* Line 55: the loop is over.
Compose ==
    /\ pc = "loop"
    /\ i = Len(image_files)
    /\ video' = CompositeVideoClip(background, clips, resolution)
    /\ pc' = "audio"
    /\ UNCHANGED <<args, image_files, total_duration, background, clips, i, written, log>>

\* Line 57: no audio file given, or none at that path.
AudioSkip ==
    /\ pc = "audio"
    /\ audio_file = NoAudioFile \/ ~audio_source.exists
    /\ pc' = "write"
    /\ UNCHANGED <<args, image_files, total_duration, background, clips, i, video, written, log>>

\* A slip: the exception of the audio stage is logged and raised again.
AudioDecodeFailRaise ==
    /\ pc = "audio"
    /\ audio_file # NoAudioFile /\ audio_source.exists
    /\ ~audio_source.decodes
    /\ log' = Append(log, <<"audio_error", 0>>)
    /\ pc' = "raised"
    /\ UNCHANGED <<args, image_files, total_duration, background, clips, i, video, written>>

\* Lines 59, 65-66: AudioFileClip raises.
AudioDecodeFail ==
    /\ pc = "audio"
    /\ audio_file # NoAudioFile /\ audio_source.exists
    /\ ~audio_source.decodes
    /\ log' = Append(log, <<"audio_error", 0>>)
    /\ pc' = "write"
    /\ UNCHANGED <<args, image_files, total_duration, background, clips, i, video, written>>

\* Lines 60-63, 65-66: the loop or the subclip raises.
AudioAdjustFail ==
    /\ pc = "audio"
    /\ audio_file # NoAudioFile /\ audio_source.exists
    /\ audio_source.decodes /\ ~audio_source.adjusts
    /\ log' = Append(log, <<"audio_error", 0>>)
    /\ pc' = "write"
    /\ UNCHANGED <<args, image_files, total_duration, background, clips, i, video, written>>

\* Lines 59-64: the reconciled track is set on the video.
AudioAttach ==
    /\ pc = "audio"
    /\ audio_file # NoAudioFile /\ audio_source.exists
    /\ audio_source.decodes /\ audio_source.adjusts
    /\ video' = [video EXCEPT !.audio = Reconcile(AudioFileClip, video.duration)]
    /\ pc' = "write"
    /\ UNCHANGED <<args, image_files, total_duration, background, clips, i, written, log>>

\* Lines 68-76: write_videofile returns.
WriteOk ==
    /\ pc = "write"
    /\ written' = Append(written, video)
    /\ log' = log \o <<<<"creating", Len(clips)>>, <<"saved", 0>>>>
    /\ pc' = "done"
    /\ UNCHANGED <<args, image_files, total_duration, background, clips, i, video>>

\* Lines 68-78: write_videofile raises.
WriteFail ==
    /\ pc = "write"
    /\ written' = Append(written, video)
    /\ log' = log \o <<<<"creating", Len(clips)>>, <<"write_error", 0>>>>
    /\ pc' = "done"
    /\ UNCHANGED <<args, image_files, total_duration, background, clips, i, video>>

Next ==
    \/ ScanEmpty
    \/ ScanFound
    \/ LoadFail
    \/ BuildClip
    \/ ZoomDivByZero
    \/ Compose
    \/ AudioSkip
    \/ AudioDecodeFail
    \/ AudioAdjustFail
    \/ AudioAttach
    \/ WriteOk
    \/ WriteFail

Spec == Init /\ [][Next]_vars

SpecLayout == InitLayout /\ [][Next]_vars

\* ------------------------------------------------------------ properties
Decodes(f) == ContentOf(f).decodes

Corrupt(f) == ~ContentOf(f).decodes

\* The image files the loop has been through so far.
Processed == SubSeq(image_files, 1, i)

Stems(s) == [k \in 1..Len(s) |-> s[k].stem]

IsLoadError(e) == e[1] = "load_error"

\* The video has been composed (line 55 has run).
Composed == video # NoVideo

\* The audio stage (lines 57-66) is over.
AudioStageOver == Composed /\ pc # "audio"

\* An audio file is given and the stage cannot use it.
AudioUnusable ==
    /\ audio_file # NoAudioFile
    /\ ~audio_source.exists \/ ~audio_source.decodes \/ ~audio_source.adjusts

AudioUsable ==
    /\ audio_file # NoAudioFile
    /\ audio_source.exists /\ audio_source.decodes /\ audio_source.adjusts

\* The composite of the background and the clips with no audio track.
SilentVideo ==
    [background |-> background, clips |-> clips, size |-> resolution,
     duration |-> total_duration, audio |-> NoAudio]

Active(c, t) == c.start <= t /\ t < c.start + c.duration

QueryTimes == 0..((MaxFiles + 1) * MaxDuration)

\* x = int(n / d) for n >= 0 and d > 0.
IsTrunc(x, n, d) == x * d <= n /\ n < (x + 1) * d

\* <<fw, fh>> is the size fitted to the canvas res for the natural size nat:
\* (trunc(w*s), trunc(h*s)) with s = min(W/w, H/h), s = sc[1] / sc[2].
IsFit(fw, fh, nat, res) ==
    \E sc \in {<<res[1], nat[1]>>, <<res[2], nat[2]>>} :
        /\ sc[1] * nat[1] <= res[1] * sc[2]
        /\ sc[1] * nat[2] <= res[2] * sc[2]
        /\ IsTrunc(fw, nat[1] * sc[1], sc[2])
        /\ IsTrunc(fh, nat[2] * sc[1], sc[2])

\* C1: the clips built so far, c_0..c_{n-1} in order, satisfy
\* c_k.start = k * duration and c_k.duration = duration: no gap, the first
\* at 0, whatever subset of the images failed to decode.
C1_ClipsContiguous ==
    \A k \in 1..Len(clips) :
        clips[k].start = (k - 1) * duration /\ clips[k].duration = duration

\* C2: once the video is composed, the duration of the background layer and
\* of the composite is n * duration, n the number of clips on the timeline.
C2_TotalDuration ==
    Composed =>
        /\ video.background.duration = Len(video.clips) * duration
        /\ video.duration = Len(video.clips) * duration

\* C3: when no image of the folder decodes (none is there, or every one is
\* corrupt), no video is ever composed and the encoder is never invoked.
C3_NoSurvivorNoEncode ==
    (\A k \in DOMAIN folder : ~folder[k].content.decodes) =>
        ~Composed /\ written = <<>>

\* C4: a decode failure is isolated: each corrupt image gone through is
\* logged and skipped, there is exactly one clip per image that decoded, in
\* order; nothing but the zero division of the zoom aborts the loop; the
\* composed timeline holds m - k clips for k failures among m image files,
\* and a run that returns with image files has invoked the encoder once on it.
C4_DecodeFailureIsolated ==
    /\ [k \in 1..Len(clips) |-> clips[k].file] = Stems(SelectSeq(Processed, Decodes))
    /\ SelectSeq(log, IsLoadError) =
       [k \in 1..Len(SelectSeq(Processed, Corrupt)) |->
           <<"load_error", SelectSeq(Processed, Corrupt)[k].stem>>]
    /\ pc = "raised" => template = "zoom" /\ duration = 0
    /\ Composed =>
        /\ i = Len(image_files)
        /\ video.clips = clips
        /\ Len(clips) = Len(image_files) - Len(SelectSeq(image_files, Corrupt))
    /\ (pc = "done" /\ image_files # <<>>) =>
        Len(written) = 1 /\ written[1].clips = clips

C4_Witness ==
    /\ pc = "done"
    /\ Len(image_files) = 2
    /\ Corrupt(image_files[1])
    /\ Decodes(image_files[2])
    /\ Len(clips) = 1
    /\ Len(written) = 1

\* C5: when the audio file is missing, undecodable or raises while looped or
\* cut, the run goes on to the encoder; the video stays without audio track
\* and the encoder is invoked exactly once, on the same clips and duration
\* as when no audio file is given.
C5_AudioFailureSilent ==
    (AudioStageOver /\ (AudioUnusable \/ audio_file = NoAudioFile)) =>
        /\ pc \in {"write", "done"}
        /\ video = SilentVideo
        /\ pc = "done" => written = <<SilentVideo>>

C5_Witness ==
    /\ pc = "done"
    /\ audio_file # NoAudioFile
    /\ audio_source.exists
    /\ audio_source.decodes /\ ~audio_source.adjusts
    /\ Len(clips) >= 1
    /\ written = <<SilentVideo>>

\* C6: an invalid configuration (duration <= 0, a canvas dimension <= 0, a
\* natural dimension <= 0) is rejected before anything is built: no
\* background, no clip, no video, no call of the encoder.
InvalidConfig ==
    \/ duration <= 0
    \/ resolution[1] <= 0 \/ resolution[2] <= 0
    \/ \E k \in DOMAIN folder :
        /\ folder[k].content.decodes
        /\ folder[k].content.size[1] <= 0 \/ folder[k].content.size[2] <= 0

C6_InvalidConfigRejected ==
    InvalidConfig =>
        background = NoClip /\ clips = <<>> /\ ~Composed /\ written = <<>>

\* C7: when the audio track loads and is adjusted, the track set on the
\* video lasts exactly as long as the video; it is looped iff it is shorter
\* than the video and cut to [0, video duration) otherwise.
C7_AudioReconciled ==
    (AudioStageOver /\ AudioUsable) =>
        /\ video.audio.duration = video.duration
        /\ video.duration = total_duration
        /\ video.audio.effect \in {"loop", "subclip"}
        /\ video.audio.effect = "loop" <=> audio_source.duration < video.duration
        /\ video.audio.effect = "subclip" <=> audio_source.duration >= video.duration

C7_Witness ==
    /\ pc = "done"
    /\ AudioUsable
    /\ audio_source.duration > video.duration
    /\ video.duration > 0
    /\ written[1].audio = [duration |-> video.duration, effect |-> "subclip"]

\* C8: for every natural size and canvas, the fitted size is
\* (trunc(w*s), trunc(h*s)) with s = min(W/w, H/h); a clip of another
\* template than zoom has exactly this size at every time, within the canvas
\* in both dimensions; a zoom clip has 1.2 times this size, truncated.
C8_FitWithinCanvas ==
    \A k \in 1..Len(clips) :
        LET c == clips[k]
        IN  IF template # "zoom"
            THEN /\ IsFit(c.size[1], c.size[2], c.natural, resolution)
                 /\ c.size[1] <= resolution[1]
                 /\ c.size[2] <= resolution[2]
                 /\ \A t \in 0..duration : FrameSizeAt(c, t) = c.size
            ELSE \E fw \in 0..resolution[1], fh \in 0..resolution[2] :
                    /\ IsFit(fw, fh, c.natural, resolution)
                    /\ IsTrunc(c.size[1], 12 * fw, 10)
                    /\ IsTrunc(c.size[2], 12 * fh, 10)

C8_Witness ==
    /\ pc = "done"
    /\ template = "fade"
    /\ Len(clips) = 1
    /\ clips[1].natural[1] > resolution[1]
    /\ clips[1].size[1] = resolution[1]
    /\ clips[1].size[2] * clips[1].natural[1] < clips[1].natural[2] * resolution[1]
    /\ clips[1].size[2] < resolution[2]

\* C9: at every query time at most one clip is active (start <= t < start +
\* duration), and the interval of every clip that is ever active lies inside
\* the range [0, duration of the background layer).
C9_AtMostOneActive ==
    /\ \A t \in QueryTimes :
        Cardinality({k \in 1..Len(clips) : Active(clips[k], t)}) <= 1
    /\ \A k \in 1..Len(clips) :
        clips[k].duration > 0 =>
            /\ 0 <= clips[k].start
            /\ clips[k].start + clips[k].duration <= background.duration
    /\ Composed => video.clips = clips /\ video.background = background

C9_Witness ==
    /\ Composed
    /\ Len(video.clips) = 2
    /\ duration = 2
    /\ Active(video.clips[1], 1) /\ ~Active(video.clips[2], 1)
    /\ Active(video.clips[2], 2) /\ ~Active(video.clips[1], 2)

\* C10: with the zoom template the size shown at local time t is the fitted
\* size times 0.8 + 0.4 * (t / duration), from 80% at t = 0 to 120% at
\* t = duration; with every other template it is the fitted size at every t
\* and the run raises nothing.
C10_ZoomScale ==
    /\ template # "zoom" => pc # "raised"
    /\ \A k \in 1..Len(clips) : \A t \in 0..duration :
        \E fw \in 0..resolution[1], fh \in 0..resolution[2] :
            /\ IsFit(fw, fh, clips[k].natural, resolution)
            /\ IF template = "zoom"
               THEN /\ IsTrunc(FrameSizeAt(clips[k], t)[1],
                               fw * (8 * duration + 4 * t), 10 * duration)
                    /\ IsTrunc(FrameSizeAt(clips[k], t)[2],
                               fh * (8 * duration + 4 * t), 10 * duration)
               ELSE FrameSizeAt(clips[k], t) = <<fw, fh>>

====
